---- MODULE Spec2Model ----
(***************************************************************************)
(* easy_ffi: the extern "C" function that the macro produced by easy_ffi!  *)
(* generates (src/src/lib.rs:125-136), run by several threads, and the     *)
(* test instance my_ffi_fn / foo (src/src/lib.rs:146-169).                 *)
(*                                                                         *)
(* One invocation is: the body runs inside ::std::panic::catch_unwind,     *)
(* the result is folded by map_err / and_then into safe_res, and the match *)
(* on safe_res returns the success value or runs $err_body or $panic_body. *)
(* The two handler bodies run after catch_unwind has returned, directly in *)
(* the extern "C" function.                                                *)
(*                                                                         *)
(* The test's handlers print with println! before they yield -1, and       *)
(* println! panics when the write to stdout fails, waits while the write   *)
(* blocks, and the process is killed by SIGPIPE when the write goes to a   *)
(* pipe without reader in a host that left that signal at its default (a   *)
(* foreign caller), so the state of stdout is part of the model. A panic   *)
(* runs the panic hook before it unwinds. The default hook writes its      *)
(* message to stderr: that write can be held for as long as the reader     *)
(* likes, and can kill the process in the same way. A panic raised with    *)
(* resume_unwind runs no hook, and a replaced hook or one whose output is  *)
(* captured writes nothing to stderr. Whether the hook's write is held or  *)
(* kills is the environment's choice at each panic.                        *)
(*                                                                         *)
(* Scope: the panic strategy is unwind (the crate's test needs it), and a  *)
(* panic payload's destructor does not panic.                              *)
(***************************************************************************)
EXTENDS Integers, Sequences, FiniteSets, TLC

\* ------------------------------------------------------------------ bounds
\* foo is called with every i in -MaxArg..MaxArg and with the two ends of i32.
MaxArg == 6
\* A generic operation succeeds with a value in 0..MaxSucc.
MaxSucc == 1
\* The threads that call generated functions.
Threads == {"t1", "t2"}

\* ------------------------------------------------------- program constants
\* The largest and the smallest i32, the type of foo's argument and result.
MaxI32 == 2147483647
MinI32 == (-MaxI32) - 1

\* The literal of foo's panicking arm, 5 => panic!(..).
AfraidOf == 5
\* The value the test's |err| handler returns.
ErrSentinel == -1
\* The value the test's |panic_val| handler returns.
PanicSentinel == -1
FooErr == "already <= 0, can't go lower"
FooPanic == "I'm afraid of 5's!"

\* ------------------------------------------------------------------ values
\* Rust's Result and Option.
Ok(x) == [tag |-> "Ok", val |-> x]
Err(x) == [tag |-> "Err", val |-> x]
None == [tag |-> "None"]
Some(x) == [tag |-> "Some", val |-> x]

\* What running a closure or a handler body yields: a value, or a panic that
\* unwinds with a payload.
Returns(v) == [k |-> "return", v |-> v]
Panics(p) == [k |-> "panic", p |-> p]
\* A handler body that prints a line with println! and then yields v.
PrintsThen(v) == [k |-> "print", v |-> v]

\* A handler body that is waiting in println! for its write to go through.
Blocks == [k |-> "block"]
\* A handler body whose println! got the process killed by SIGPIPE.
Kills == [k |-> "kill"]

\* Standard output takes what is written to it, or the write fails (a full
\* device, a pipe whose reader is gone while SIGPIPE is ignored), or the write
\* blocks (a full pipe whose reader does not read) for as long as the reader
\* likes, or the write kills the process (a pipe whose reader is gone while
\* SIGPIPE is at its default, as in a host that is not a Rust binary).
StdoutStates == {"writable", "failing", "blocking", "killing"}
\* The payload of the panic of println! when the write fails.
PrintPanic == "failed printing to stdout"

\* What a handler body does when standard output is in state s: println!
\* panics if the write fails, neither returns nor panics while the write
\* blocks, and ends with the process when the write kills it.
RunHandler(body, s) ==
    IF body.k = "print"
    THEN CASE s = "failing" -> Panics(PrintPanic)
           [] s = "blocking" -> Blocks
           [] s = "killing" -> Kills
           [] OTHER -> Returns(body.v)
    ELSE body

\* Error values and panic payloads of the generic operations.
GenErrs == {"e1", "e2"}
GenPayloads == {"p1", "p2"}
SuccVals == 0 .. MaxSucc
\* What a caller-supplied handler body does with its argument.
HandlerOuts == {Returns(-11), Returns(-12), Panics("handler panic")}

FooInputs == ((-MaxArg) .. MaxArg) \cup {MinI32, MaxI32}

\* The behaviour of a body: succeed with s, build the error e and return it,
\* panic with p, panic with p while the error e is being built, never finish.
OpOk(s) == [kind |-> "ok", s |-> s]
OpErr(e) == [kind |-> "err", e |-> e]
OpPanic(p) == [kind |-> "panic", p |-> p]
OpErrPanic(e, p) == [kind |-> "err_panic", e |-> e, p |-> p]
OpDiverge == [kind |-> "diverge"]
\* No invocation yet.
NoOp == [kind |-> "none"]

GenOps ==
    {OpOk(s) : s \in SuccVals} \cup {OpErr(e) : e \in GenErrs}
        \cup {OpPanic(p) : p \in GenPayloads}
        \cup {OpErrPanic("e1", "p1")}
        \cup {OpDiverge}

\* ------------------------------------------------------- the test's foo
\* The subtraction i-1 of foo's last arm, in i32: only MinI32 - 1 overflows
\* (it wraps to MaxI32 in a build without overflow checks), and the arm is
\* taken for i >= 1 only.
FooSub(i) == IF i = MinI32 THEN MaxI32 ELSE i - 1

\* foo with the guard of its second arm written i < 0.
foo_body_lt(i) ==
    IF i = AfraidOf THEN OpPanic(FooPanic)
    ELSE IF i < 0 THEN OpErr(FooErr)
    ELSE OpOk(FooSub(i))

\* fn foo(i: i32) -> Result<i32, &'static str>: the match on i.
foo_body(i) ==
    IF i = AfraidOf THEN OpPanic(FooPanic)
    ELSE IF i <= 0 THEN OpErr(FooErr)
    ELSE OpOk(FooSub(i))

\* The handlers given to easy_ffi!(my_ffi_fn => ...): |err| prints err, and
\* |panic_val| prints the payload's message or "unknown panic!"; then both
\* yield -1.
my_ffi_fn_err == [e \in {FooErr} |-> PrintsThen(ErrSentinel)]
my_ffi_fn_panic == [p \in {FooPanic} |-> PrintsThen(PanicSentinel)]

\* ------------------------------------------------- the generated function
\* What the body yields to catch_unwind.
BodyResult(op) ==
    CASE op.kind = "ok" -> Returns(Ok(op.s))
      [] op.kind = "err" -> Returns(Err(op.e))
      [] op.kind = "panic" -> Panics(op.p)
      [] op.kind = "err_panic" -> Panics(op.p)

\* ::std::panic::catch_unwind(move || $body)
catch_unwind(r) == IF r.k = "panic" THEN Err(r.p) ELSE Ok(r.v)

\* The first closure written with the other constructor.
WrapPanicAsError(e) == Ok(e)

\* .map_err(|e| Err(e)): a caught panic becomes Err(Err(payload)).
WrapPanic(e) == Err(e)
\* The second closure written with the other constructor.
WrapErrorAsPanic(e) == Err(e)

\* ok.map_err(|e| Ok(e)): a Result::Err of the body becomes Err(Ok(error)).
WrapError(e) == Ok(e)

\* r.map_err(|e| Err(e)), on the result of catch_unwind: Result::map_err
\* applies the closure to an Err's value and leaves an Ok as it is.
map_err_panic(r) == IF r.tag = "Err" THEN Err(WrapPanic(r.val)) ELSE r

\* ok.map_err(|e| Ok(e)), on the body's own Result.
map_err_error(ok) == IF ok.tag = "Err" THEN Err(WrapError(ok.val)) ELSE ok

\* r.and_then(|ok| ok.map_err(..)): Result::and_then applies the closure to
\* an Ok's value and leaves an Err as it is.
and_then(r) == IF r.tag = "Ok" THEN map_err_error(r.val) ELSE r

\* let safe_res = catch_unwind(..).map_err(..).and_then(|ok| ok.map_err(..));
SafeRes(r) == and_then(map_err_panic(r))

\* The match with the patterns of its two Err arms exchanged.
MatchArmSwapped(sr) ==
    IF sr.tag = "Ok" THEN "return"
    ELSE IF sr.val.tag = "Ok" THEN "panic_body"
    ELSE "err_body"

\* The arm of match safe_res { Ok(x), Err(Ok($err)), Err(Err($panic)) }.
MatchArm(sr) ==
    IF sr.tag = "Ok" THEN "return"
    ELSE IF sr.val.tag = "Ok" THEN "err_body"
    ELSE "panic_body"

\* The body called without catch_unwind.
GuardedNothing(p) == FALSE

\* The whole function body, handlers included, inside the closure.
GuardedHandlers(p) ==
    p \in {"running", "producing_err", "err_body", "panic_body"}

\* The code that runs inside the closure given to catch_unwind: the body,
\* and nothing else of the function.
Guarded(p) == p \in {"running", "producing_err"}

\* What a panic does that reaches the end of the extern "C" function: the
\* function may not unwind, so the process is aborted, or (toolchains without
\* the abort guard, where it is undefined behaviour) the unwinding goes on
\* into the caller's frames.
BoundaryEscapes == {"abort", "unwind"}

VARIABLES
    macro,          \* the macro instance in use: "my_ffi_fn" or "generic"
    error_handler,  \* $err_body as a function of $err
    abort_handler,  \* $panic_body as a function of $panic
    stdout,         \* the state of the process's standard output
    proc,           \* "alive", "aborted" or "killed"
    pc,             \* per thread: where its invocation stands
    arg,            \* per thread: foo's argument i
    op,             \* per thread: what the body of this invocation does
    cu,             \* per thread: the value catch_unwind returned
    safe_res,       \* per thread: the local safe_res
    ret,            \* per thread: the value returned to the caller
    via,            \* per thread: the path that produced ret
    op_starts,      \* per thread: times the body was started
    err_calls,      \* per thread: times $err_body was entered
    abort_calls,    \* per thread: times $panic_body was entered
    err_arg,        \* per thread: the value bound to $err
    abort_arg,      \* per thread: the value bound to $panic
    hist,           \* per thread: the pc values of this invocation, in order
    saw             \* per thread: the state of stdout its handler body met

config == <<macro, error_handler, abort_handler, stdout>>
locals == <<arg, op, cu, safe_res, ret, via, op_starts, err_calls,
            abort_calls, err_arg, abort_arg>>
vars == <<macro, error_handler, abort_handler, stdout, proc, pc, arg, op,
          cu, safe_res, ret, via, op_starts, err_calls, abort_calls, err_arg,
          abort_arg, hist, saw>>

\* Some handler body of the instance writes to standard output.
UsesStdout ==
    \/ \E x \in DOMAIN error_handler : error_handler[x].k = "print"
    \/ \E x \in DOMAIN abort_handler : abort_handler[x].k = "print"

\* The macro instances: the test's my_ffi_fn, and one whose two handler
\* bodies are any functions of their argument.
Instances ==
    {<<"my_ffi_fn", my_ffi_fn_err, my_ffi_fn_panic>>}
        \cup {<<"generic", eh, ah>> : eh \in [GenErrs -> HandlerOuts],
                                      ah \in [GenPayloads -> HandlerOuts]}

Init ==
    /\ \E inst \in Instances :
        /\ macro = inst[1]
        /\ error_handler = inst[2]
        /\ abort_handler = inst[3]
        \* The state of stdout is kept only where a handler writes to it.
        /\ stdout \in (IF inst[1] = "my_ffi_fn" THEN StdoutStates
                        ELSE {"writable"})
    /\ proc = "alive"
    /\ pc = [t \in Threads |-> "idle"]
    /\ arg = [t \in Threads |-> 0]
    /\ op = [t \in Threads |-> NoOp]
    /\ cu = [t \in Threads |-> None]
    /\ safe_res = [t \in Threads |-> None]
    /\ ret = [t \in Threads |-> None]
    /\ via = [t \in Threads |-> "none"]
    /\ op_starts = [t \in Threads |-> 0]
    /\ err_calls = [t \in Threads |-> 0]
    /\ abort_calls = [t \in Threads |-> 0]
    /\ err_arg = [t \in Threads |-> None]
    /\ abort_arg = [t \in Threads |-> None]
    /\ hist = [t \in Threads |-> <<>>]
    /\ saw = [t \in Threads |-> "none"]

\* Thread t moves to pc value p.
Goto(t, p) ==
    /\ pc' = [pc EXCEPT ![t] = p]
    /\ hist' = [hist EXCEPT ![t] = Append(@, p)]

\* The locals of a fresh call frame.
Enter(t, i, o) ==
    /\ proc = "alive"
    /\ pc[t] \in {"idle", "done"}
    /\ pc' = [pc EXCEPT ![t] = "start"]
    /\ hist' = [hist EXCEPT ![t] = <<"start">>]
    /\ arg' = [arg EXCEPT ![t] = i]
    /\ op' = [op EXCEPT ![t] = o]
    /\ cu' = [cu EXCEPT ![t] = None]
    /\ safe_res' = [safe_res EXCEPT ![t] = None]
    /\ ret' = [ret EXCEPT ![t] = None]
    /\ via' = [via EXCEPT ![t] = "none"]
    /\ op_starts' = [op_starts EXCEPT ![t] = 0]
    /\ err_calls' = [err_calls EXCEPT ![t] = 0]
    /\ abort_calls' = [abort_calls EXCEPT ![t] = 0]
    /\ err_arg' = [err_arg EXCEPT ![t] = None]
    /\ abort_arg' = [abort_arg EXCEPT ![t] = None]
    /\ saw' = [saw EXCEPT ![t] = "none"]
    /\ UNCHANGED <<config, proc>>

\* The foreign caller calls foo(i).
CallFoo(t) ==
    /\ macro = "my_ffi_fn"
    /\ \E i \in FooInputs : Enter(t, i, foo_body(i))

\* The foreign caller calls a function generated from some other body.
CallGen(t) ==
    /\ macro = "generic"
    /\ \E o \in GenOps : Enter(t, 0, o)

\* A loop around catch_unwind that runs the body again after a caught panic.
StartBodyRetry(t) ==
    /\ proc = "alive"
    /\ \/ pc[t] = "start"
       \/ pc[t] = "caught" /\ cu[t].tag = "Err"
    /\ op_starts' = [op_starts EXCEPT ![t] = @ + 1]
    /\ Goto(t, "running")
    /\ UNCHANGED <<config, saw, proc, arg, op, cu, safe_res, ret, via, err_calls,
                   abort_calls, err_arg, abort_arg>>

\* catch_unwind starts the closure.
StartBody(t) ==
    /\ proc = "alive"
    /\ pc[t] = "start"
    /\ op_starts' = [op_starts EXCEPT ![t] = @ + 1]
    /\ Goto(t, "running")
    /\ UNCHANGED <<config, saw, proc, arg, op, cu, safe_res, ret, via, err_calls,
                   abort_calls, err_arg, abort_arg>>

\* The closure is over with r: catch_unwind returns Ok(value) or Err(payload).
Caught(t, r) ==
    /\ cu' = [cu EXCEPT ![t] = catch_unwind(r)]
    /\ Goto(t, "caught")
    /\ UNCHANGED <<config, proc, arg, op, safe_res, ret, via, op_starts,
                   err_calls, abort_calls, err_arg, abort_arg>>

\* The process is killed by SIGPIPE in a write of thread t.
Killed(t) ==
    /\ proc' = "killed"
    /\ Goto(t, "killed")
    /\ UNCHANGED <<config, locals>>

\* The panic leaves the extern "C" function: the function may not unwind and
\* the process is aborted, or the panic unwinds into the caller.
Escape(t) ==
    /\ \E esc \in BoundaryEscapes :
        \/ /\ esc = "abort"
           /\ proc' = "aborted"
           /\ Goto(t, "aborted")
        \/ /\ esc = "unwind"
           /\ proc' = proc
           /\ Goto(t, "unwound")
    /\ UNCHANGED <<config, locals>>

\* Thread t panics: the panic hook comes first, where the panic was raised.
RaisePanic(t, where) ==
    /\ Goto(t, where)
    /\ UNCHANGED <<config, proc, locals>>

\* The code that thread t was running when it panicked.
PanicSite(t) ==
    IF pc[t] = "panicking_body" THEN "running"
    ELSE IF err_calls[t] > 0 THEN "err_body"
    ELSE "panic_body"

\* The payload of the panic of thread t.
PanicPayload(t) ==
    IF pc[t] = "panicking_body" THEN BodyResult(op[t]).p
    ELSE RunHandler(IF err_calls[t] > 0 THEN error_handler[err_arg[t].val]
                    ELSE abort_handler[abort_arg[t].val], saw[t]).p

\* The panic hook is over (no hook ran, it wrote nothing to stderr, or its
\* write was taken or failed, which the hook ignores) and the panic unwinds:
\* the unwinding stops at catch_unwind when the panicking code runs inside
\* its closure, and leaves the function otherwise. For a handler's panic the
\* hook stands for the abort's message too.
Unwind(t) ==
    /\ proc = "alive"
    /\ pc[t] \in {"panicking_body", "panicking_handler"}
    /\ IF Guarded(PanicSite(t)) THEN Caught(t, Panics(PanicPayload(t)))
       ELSE Escape(t)
    /\ UNCHANGED saw

\* Thread t waits, or stops waiting, in the write of its panic hook: it is at
\* p now, which is no further step of its invocation.
Wait(t, p) ==
    /\ pc' = [pc EXCEPT ![t] = p]
    /\ hist' = [hist EXCEPT ![t][Len(hist[t])] = p]
    /\ UNCHANGED <<config, proc, locals, saw>>

\* The hook's write to stderr is held: a full pipe whose reader does not read.
HookHeld(t) ==
    /\ proc = "alive"
    /\ \/ pc[t] = "panicking_body" /\ Wait(t, "held_body")
       \/ pc[t] = "panicking_handler" /\ Wait(t, "held_handler")

\* The reader of stderr takes the write that held the hook of thread t, or
\* goes away while SIGPIPE is ignored.
HookReleased(t) ==
    /\ proc = "alive"
    /\ \/ pc[t] = "held_body" /\ Wait(t, "panicking_body")
       \/ pc[t] = "held_handler" /\ Wait(t, "panicking_handler")

\* The hook of thread t writes to a stderr whose reader is gone, or the
\* reader goes away while the write is held, and SIGPIPE kills the process.
HookKilled(t) ==
    /\ proc = "alive"
    /\ pc[t] \in {"panicking_body", "held_body", "panicking_handler",
                  "held_handler"}
    /\ Killed(t)
    /\ UNCHANGED saw

\* The body returns Ok(s).
BodyOk(t) ==
    /\ proc = "alive"
    /\ pc[t] = "running"
    /\ op[t].kind = "ok"
    /\ Caught(t, BodyResult(op[t]))
    /\ UNCHANGED saw

\* The body starts to build its error value.
BodyProduceErr(t) ==
    /\ proc = "alive"
    /\ pc[t] = "running"
    /\ op[t].kind \in {"err", "err_panic"}
    /\ Goto(t, "producing_err")
    /\ UNCHANGED <<config, proc, locals, saw>>

\* The body returns Err(e).
BodyErr(t) ==
    /\ proc = "alive"
    /\ pc[t] = "producing_err"
    /\ op[t].kind = "err"
    /\ Caught(t, BodyResult(op[t]))
    /\ UNCHANGED saw

\* The body panics, at once or while it builds its error value.
BodyPanic(t) ==
    /\ proc = "alive"
    /\ \/ pc[t] = "running" /\ op[t].kind = "panic"
       \/ pc[t] = "producing_err" /\ op[t].kind = "err_panic"
    /\ RaisePanic(t, "panicking_body")
    /\ UNCHANGED saw

\* The body never finishes.
BodyDiverge(t) ==
    /\ proc = "alive"
    /\ pc[t] = "running"
    /\ op[t].kind = "diverge"
    /\ Goto(t, "diverged")
    /\ UNCHANGED <<config, proc, locals, saw>>

\* map_err and and_then fold the result of catch_unwind into safe_res.
Classify(t) ==
    /\ proc = "alive"
    /\ pc[t] = "caught"
    /\ safe_res' = [safe_res EXCEPT ![t] = SafeRes(cu[t])]
    /\ Goto(t, "classified")
    /\ UNCHANGED <<config, saw, proc, arg, op, cu, ret, via, op_starts, err_calls,
                   abort_calls, err_arg, abort_arg>>

\* The matched value kept in one slot per arm that all threads share: a
\* thread may read what another thread stored.
BoundShared(t) ==
    LET others == {u \in Threads \ {t} :
                      /\ safe_res[u].tag # "None"
                      /\ MatchArm(safe_res[u]) = MatchArm(safe_res[t])}
        src == IF others = {} THEN t ELSE CHOOSE u \in others : TRUE
    IN  IF safe_res[src].tag = "Ok" THEN safe_res[src].val
        ELSE safe_res[src].val.val

\* The success value replaced by the result type's default.
BoundDefault(t) ==
    IF safe_res[t].tag = "Ok" THEN 0 ELSE safe_res[t].val.val

\* The value the match binds in the arm taken: x, $err or $panic.
Bound(t) ==
    IF safe_res[t].tag = "Ok" THEN safe_res[t].val ELSE safe_res[t].val.val

\* Ok(x) => return x
MatchOk(t) ==
    /\ proc = "alive"
    /\ pc[t] = "classified"
    /\ MatchArm(safe_res[t]) = "return"
    /\ ret' = [ret EXCEPT ![t] = Some(Bound(t))]
    /\ via' = [via EXCEPT ![t] = "success"]
    /\ Goto(t, "done")
    /\ UNCHANGED <<config, saw, proc, arg, op, cu, safe_res, op_starts, err_calls,
                   abort_calls, err_arg, abort_arg>>

\* Err(Ok($err)) => $err_body
MatchErr(t) ==
    /\ proc = "alive"
    /\ pc[t] = "classified"
    /\ MatchArm(safe_res[t]) = "err_body"
    /\ err_arg' = [err_arg EXCEPT ![t] = Some(Bound(t))]
    /\ err_calls' = [err_calls EXCEPT ![t] = @ + 1]
    /\ Goto(t, "err_body")
    /\ UNCHANGED <<config, saw, proc, arg, op, cu, safe_res, ret, via, op_starts,
                   abort_calls, abort_arg>>

\* Err(Err($panic)) => $panic_body
MatchPanic(t) ==
    /\ proc = "alive"
    /\ pc[t] = "classified"
    /\ MatchArm(safe_res[t]) = "panic_body"
    /\ abort_arg' = [abort_arg EXCEPT ![t] = Some(Bound(t))]
    /\ abort_calls' = [abort_calls EXCEPT ![t] = @ + 1]
    /\ Goto(t, "panic_body")
    /\ UNCHANGED <<config, saw, proc, arg, op, cu, safe_res, ret, via, op_starts,
                   err_calls, err_arg>>

\* The handler body that thread t is in, for the value it was given.
HandlerBody(t) ==
    IF pc[t] = "err_body" THEN error_handler[err_arg[t].val]
    ELSE abort_handler[abort_arg[t].val]

\* What the handler body that thread t is in does.
HandlerResult(t) == RunHandler(HandlerBody(t), stdout)

\* The path a handler body's value is returned on.
HandlerPath(t) ==
    IF pc[t] = "err_body" THEN "error_handler" ELSE "abort_handler"

\* The handler body's value is the value of the match, which the function
\* returns.
HandlerReturn(t) ==
    /\ proc = "alive"
    /\ pc[t] \in {"err_body", "panic_body"}
    /\ HandlerResult(t).k = "return"
    /\ ret' = [ret EXCEPT ![t] = Some(HandlerResult(t).v)]
    /\ via' = [via EXCEPT ![t] = HandlerPath(t)]
    /\ saw' = [saw EXCEPT ![t] = stdout]
    /\ Goto(t, "done")
    /\ UNCHANGED <<config, proc, arg, op, cu, safe_res, op_starts, err_calls,
                   abort_calls, err_arg, abort_arg>>

\* The handler body panics.
HandlerPanic(t) ==
    /\ proc = "alive"
    /\ pc[t] \in {"err_body", "panic_body"}
    /\ HandlerResult(t).k = "panic"
    /\ saw' = [saw EXCEPT ![t] = stdout]
    /\ RaisePanic(t, "panicking_handler")

\* The handler body's println! writes to a pipe without reader, and SIGPIPE
\* kills the process.
HandlerKilled(t) ==
    /\ proc = "alive"
    /\ pc[t] \in {"err_body", "panic_body"}
    /\ HandlerResult(t).k = "kill"
    /\ saw' = [saw EXCEPT ![t] = stdout]
    /\ Killed(t)

\* Writes to standard output start or stop failing, blocking or killing.
StdoutChanges ==
    /\ proc = "alive"
    /\ UsesStdout
    /\ \E s \in StdoutStates \ {stdout} : stdout' = s
    /\ UNCHANGED <<macro, error_handler, abort_handler, proc, pc, hist,
                   locals, saw>>

Step(t) ==
    \/ StartBody(t)
    \/ BodyOk(t)
    \/ BodyProduceErr(t)
    \/ BodyErr(t)
    \/ BodyPanic(t)
    \/ BodyDiverge(t)
    \/ Classify(t)
    \/ MatchOk(t)
    \/ MatchErr(t)
    \/ MatchPanic(t)
    \/ HandlerReturn(t)
    \/ HandlerPanic(t)
    \/ HandlerKilled(t)
    \/ Unwind(t)

Next ==
    \/ \E t \in Threads :
        \/ CallFoo(t)
        \/ CallGen(t)
        \/ Step(t)
        \/ HookHeld(t)
        \/ HookReleased(t)
        \/ HookKilled(t)
    \/ StdoutChanges

Spec == Init /\ [][Next]_vars

\* Every thread that can take a step of its invocation eventually takes one.
\* Nothing makes the reader of stderr ever take a write that it holds.
FairSpec == Spec /\ \A t \in Threads : WF_vars(Step(t))

\* ------------------------------------------------------------ properties
HandlerCalls(t) == err_calls[t] + abort_calls[t]
Returned(t) == pc[t] = "done"
InHandlerOrAfter(t) ==
    pc[t] \in {"err_body", "panic_body", "panicking_handler", "held_handler",
               "done", "unwound", "aborted"}

\* What the handler body that thread t entered did, once it is over.
HandlerOutcome(t) ==
    RunHandler(IF err_calls[t] > 0 THEN error_handler[err_arg[t].val]
               ELSE abort_handler[abort_arg[t].val], saw[t])

\* The handler body that thread t entered has panicked.
HandlerPanics(t) ==
    /\ HandlerCalls(t) > 0
    /\ saw[t] # "none"
    /\ HandlerOutcome(t).k = "panic"

\* C1: an invocation whose body returns Ok(s) returns exactly s, and neither
\* the error handler nor the panic handler is entered during it.
C1_SuccessPassthrough ==
    \A t \in Threads :
        op[t].kind = "ok" =>
            /\ err_calls[t] = 0
            /\ abort_calls[t] = 0
            /\ pc[t] \notin {"err_body", "panic_body", "panicking_body",
                          "held_body", "panicking_handler", "held_handler",
                          "unwound", "aborted", "killed"}
            /\ Returned(t) => ret[t].tag = "Some" /\ ret[t].val = op[t].s

C1_Witness ==
    \E t \in Threads :
        /\ Returned(t)
        /\ op[t].kind = "ok"
        /\ op[t].s = 1
        /\ ret[t].val = 1
        /\ macro = "generic"

\* C2: an invocation whose body returns Err(e) enters the error handler
\* exactly once, with that same e, returns the handler's value, and never
\* enters the panic handler.
C2_ErrorHandled ==
    \A t \in Threads :
        op[t].kind = "err" =>
            /\ abort_calls[t] = 0
            /\ err_calls[t] <= 1
            /\ InHandlerOrAfter(t) =>
                /\ err_calls[t] = 1
                /\ err_arg[t].tag = "Some"
                /\ err_arg[t].val = op[t].e
            /\ Returned(t) =>
                /\ RunHandler(error_handler[op[t].e], saw[t]).k = "return"
                /\ ret[t].tag = "Some"
                /\ ret[t].val = RunHandler(error_handler[op[t].e], saw[t]).v

C2_Witness ==
    \E t \in Threads :
        /\ Returned(t)
        /\ op[t].kind = "err"
        /\ op[t].e = "e2"
        /\ err_calls[t] = 1
        /\ ret[t].val = -12
        /\ error_handler["e1"].k = "return"
        /\ error_handler["e1"].v = -11

\* C3: an invocation whose body panics with payload p enters the panic
\* handler exactly once, with that same p, returns the handler's value, and
\* never enters the error handler.
C3_PanicHandled ==
    \A t \in Threads :
        op[t].kind \in {"panic", "err_panic"} =>
            /\ err_calls[t] = 0
            /\ abort_calls[t] <= 1
            /\ InHandlerOrAfter(t) =>
                /\ abort_calls[t] = 1
                /\ abort_arg[t].tag = "Some"
                /\ abort_arg[t].val = op[t].p
            /\ Returned(t) =>
                /\ RunHandler(abort_handler[op[t].p], saw[t]).k = "return"
                /\ ret[t].tag = "Some"
                /\ ret[t].val = RunHandler(abort_handler[op[t].p], saw[t]).v

C3_Witness ==
    \E t \in Threads :
        /\ Returned(t)
        /\ op[t].kind = "panic"
        /\ op[t].p = "p2"
        /\ abort_calls[t] = 1
        /\ ret[t].val = -11
        /\ abort_handler["p1"].k = "return"
        /\ abort_handler["p1"].v = -12

\* C4: in every invocation at most one handler is entered; the value an
\* invocation returns comes from exactly one of the success arm, the error
\* handler and the panic handler; and a panic of the body never leaves the
\* function: whatever leaves it unwinding or aborts the process was raised by
\* a handler, after catch_unwind had returned.
C4_ExactlyOnePath ==
    \A t \in Threads :
        /\ HandlerCalls(t) <= 1
        /\ Returned(t) =>
            /\ ret[t].tag = "Some"
            /\ via[t] \in {"success", "error_handler", "abort_handler"}
            /\ (via[t] = "success") = (HandlerCalls(t) = 0)
            /\ (via[t] = "error_handler") = (err_calls[t] = 1)
            /\ (via[t] = "abort_handler") = (abort_calls[t] = 1)
        /\ ~Returned(t) => via[t] = "none" /\ ret[t].tag = "None"
        /\ pc[t] \in {"unwound", "aborted"} =>
            /\ cu[t].tag # "None"
            /\ HandlerCalls(t) = 1
            /\ HandlerPanics(t)

C4_Witness ==
    \E t, u \in Threads :
        /\ Returned(t)
        /\ via[t] = "abort_handler"
        /\ op[t].kind = "panic"
        /\ Returned(u)
        /\ via[u] = "error_handler"

\* The handler body that thread t is in waits in a write that blocks.
HandlerBlocked(t) ==
    /\ pc[t] \in {"err_body", "panic_body"}
    /\ HandlerResult(t).k = "block"

\* The handler body that thread t entered has not returned normally: it has
\* panicked, or its println! got the process killed.
HandlerFails(t) ==
    /\ HandlerCalls(t) > 0
    /\ saw[t] # "none"
    /\ HandlerOutcome(t).k \in {"panic", "kill"}

\* The panic of the body of thread t is held in the panic hook, whose write
\* to stderr blocks, before catch_unwind returns.
BodyPanicBlocked(t) == pc[t] = "held_body"

\* The panic of a handler has aborted the process, and every invocation in it.
AbortedByHandlerPanic ==
    /\ proc = "aborted"
    /\ \E u \in Threads : pc[u] = "aborted" /\ HandlerPanics(u)

\* SIGPIPE has killed the process, and every invocation in it, in a write to
\* stdout or stderr.
KilledInWrite ==
    /\ proc = "killed"
    /\ \E u \in Threads : pc[u] = "killed"

\* C5 as stated: under fair scheduling every invocation that is entered
\* returns a value, unless its body never finishes or its own handler does not
\* return normally (it is held in a write that blocks, it panics, or its
\* write kills the process).
C5_AsStated ==
    \A t \in Threads :
        (pc[t] = "start") ~>
            \/ Returned(t) /\ ret[t].tag = "Some"
            \/ pc[t] = "diverged"
            \/ HandlerBlocked(t)
            \/ HandlerFails(t)

\* C5: under fair scheduling every invocation that is entered returns a value,
\* unless its body never finishes, its own handler does not return normally
\* (it is held in a write that blocks, it panics, or its write kills the
\* process), the panic of its body is held in the panic hook by a write to
\* stderr that blocks, the panic of a handler of another invocation has
\* aborted the process, or a write to stdout or stderr has got the process
\* killed (the panic hook's, while the body of this or another invocation
\* panics, or one of another invocation's handler).
C5_AlwaysReturns ==
    \A t \in Threads :
        (pc[t] = "start") ~>
            \/ Returned(t) /\ ret[t].tag = "Some"
            \/ pc[t] = "diverged"
            \/ HandlerBlocked(t)
            \/ HandlerFails(t)
            \/ BodyPanicBlocked(t)
            \/ AbortedByHandlerPanic
            \/ KilledInWrite

C5_Witness ==
    \E t \in Threads :
        /\ Returned(t)
        /\ op[t].kind = "err_panic"
        /\ ret[t].tag = "Some"
        /\ proc = "alive"

\* C6: foo(i) returns -1 when i = 5 (from the panic handler), -1 when i <= 0
\* (from the error handler) and i - 1 otherwise; every call of foo returns,
\* and no successful call returns a negative value. It fails: when the write
\* to stdout fails, println! panics in the handler and foo(5) and foo(i) for
\* i <= 0 return nothing (nor do they while the write blocks).
C6_Foo ==
    macro = "my_ffi_fn" =>
        \A t \in Threads :
            /\ pc[t] \notin {"unwound", "aborted", "diverged"}
            /\ Returned(t) =>
                /\ ret[t].tag = "Some"
                /\ arg[t] = 5 => ret[t].val = -1 /\ via[t] = "abort_handler"
                /\ arg[t] # 5 /\ arg[t] <= 0 =>
                    ret[t].val = -1 /\ via[t] = "error_handler"
                /\ arg[t] # 5 /\ arg[t] > 0 =>
                    ret[t].val = arg[t] - 1 /\ via[t] = "success"
                /\ via[t] = "success" => ret[t].val >= 0

\* C7: the error handler is entered only when catch_unwind reported that the
\* body completed; once catch_unwind reports a panic the invocation is
\* classified as a panic and the error handler is never entered, also when
\* the body panicked while it was building its error value.
C7_PanicPrecedence ==
    \A t \in Threads :
        /\ cu[t].tag = "Err" =>
            /\ err_calls[t] = 0
            /\ err_arg[t].tag = "None"
            /\ pc[t] # "err_body"
            /\ safe_res[t].tag # "None" =>
                MatchArm(safe_res[t]) = "panic_body"
            /\ Returned(t) => via[t] = "abort_handler"
        /\ err_calls[t] > 0 => cu[t].tag = "Ok" /\ cu[t].val.tag = "Err"
        /\ op[t].kind = "err_panic" /\ pc[t] \notin {"start", "running"} =>
            /\ "producing_err" \in {hist[t][i] : i \in DOMAIN hist[t]}
            /\ err_calls[t] = 0

C7_Witness ==
    \E t \in Threads :
        /\ op[t].kind = "err_panic"
        /\ pc[t] = "panic_body"
        /\ abort_arg[t].val = op[t].p
        /\ err_calls[t] = 0

\* What C8 says of a handler that panics, but for where the panic ends up:
\* catch_unwind does not catch it (cu keeps the body's result), no further
\* handler is entered, and the invocation returns no value.
HandlerPanicUncaught(t) ==
    /\ HandlerCalls(t) = 1
    /\ cu[t] = catch_unwind(BodyResult(op[t]))
    /\ ret[t].tag = "None"
    /\ via[t] = "none"

\* C8 as stated: the panic of a handler is not caught, is not routed to the
\* panic handler, and propagates out of the function into its caller.
C8_AsStated ==
    \A t \in Threads :
        HandlerPanics(t) =>
            /\ HandlerPanicUncaught(t)
            /\ pc[t] \in {"panicking_handler", "held_handler", "unwound"}

\* C8 as amended: the panic of a handler is not caught, is not routed to the
\* panic handler and no handler is entered because of it; it leaves the
\* extern "C" function, where it either aborts the process or unwinds into
\* the caller, unless the process is killed first in a write of the panic's
\* message to stderr; the invocation returns no value.
C8_HandlerPanicEscapes ==
    \A t \in Threads :
        HandlerPanics(t) =>
            /\ HandlerPanicUncaught(t)
            /\ pc[t] \in {"panicking_handler", "held_handler", "unwound",
                          "aborted", "killed"}
            /\ pc[t] = "aborted" => proc = "aborted"
            /\ pc[t] = "killed" => proc = "killed"

C8_Witness ==
    \E t \in Threads :
        /\ pc[t] = "aborted"
        /\ proc = "aborted"
        /\ err_calls[t] = 1
        /\ abort_calls[t] = 0
        /\ error_handler[err_arg[t].val].k = "panic"

\* The order of an invocation's steps.
Follows(p, q) ==
    \/ p = "start" /\ q = "running"
    \/ p = "running"
        /\ q \in {"producing_err", "caught", "diverged", "panicking_body",
                  "held_body"}
    \/ p = "producing_err" /\ q \in {"caught", "panicking_body", "held_body"}
    \/ p \in {"panicking_body", "held_body"} /\ q \in {"caught", "killed"}
    \/ p = "caught" /\ q = "classified"
    \/ p = "classified" /\ q \in {"err_body", "panic_body", "done"}
    \/ p \in {"err_body", "panic_body"}
        /\ q \in {"done", "panicking_handler", "held_handler", "killed"}
    \/ p \in {"panicking_handler", "held_handler"}
        /\ q \in {"unwound", "aborted", "killed"}

\* C9: an invocation goes start, running, (catch_unwind returned, safe_res
\* classified), handler or passthrough, done, in that order; the body is
\* started exactly once and never again; a handler is entered only after the
\* body is over and safe_res holds its classification.
C9_Order ==
    \A t \in Threads :
        /\ pc[t] # "idle" =>
            /\ hist[t] # <<>>
            /\ hist[t][1] = "start"
            /\ hist[t][Len(hist[t])] = pc[t]
            /\ \A i \in 1 .. (Len(hist[t]) - 1) :
                Follows(hist[t][i], hist[t][i + 1])
        /\ op_starts[t] = (IF pc[t] \in {"idle", "start"} THEN 0 ELSE 1)
        /\ HandlerCalls(t) > 0 =>
            /\ cu[t].tag # "None"
            /\ safe_res[t].tag = "Err"
            /\ \E i \in DOMAIN hist[t] : hist[t][i] = "classified"
        /\ pc[t] \in {"start", "running", "producing_err", "panicking_body",
                      "held_body", "caught", "classified", "diverged"} =>
            HandlerCalls(t) = 0

C9_Witness ==
    \E t \in Threads :
        hist[t] = <<"start", "running", "producing_err", "caught",
                    "classified", "err_body", "done">>

\* What the function does with body o and handlers eh, ah when nothing else
\* runs and its handler meets stdout in state s: the composition of its steps.
Alone(o, eh, ah, s) ==
    LET sr == SafeRes(catch_unwind(BodyResult(o)))
    IN  CASE MatchArm(sr) = "return" -> Returns(sr.val)
          [] MatchArm(sr) = "err_body" -> RunHandler(eh[sr.val.val], s)
          [] MatchArm(sr) = "panic_body" -> RunHandler(ah[sr.val.val], s)

\* C10: whatever the other threads do, an invocation is classified, enters
\* the handler and returns the value that it does when it runs alone, and the
\* value its handler gets is its own body's error or payload.
C10_NoLeak ==
    \A t \in Threads :
        /\ safe_res[t].tag # "None" =>
            MatchArm(safe_res[t])
                = MatchArm(SafeRes(catch_unwind(BodyResult(op[t]))))
        /\ err_arg[t].tag = "Some" =>
            op[t].kind = "err" /\ err_arg[t].val = op[t].e
        /\ abort_arg[t].tag = "Some" =>
            op[t].kind \in {"panic", "err_panic"}
                /\ abort_arg[t].val = op[t].p
        /\ Returned(t) =>
            /\ Alone(op[t], error_handler, abort_handler, saw[t]).k = "return"
            /\ ret[t].val
                = Alone(op[t], error_handler, abort_handler, saw[t]).v
        /\ pc[t] \in {"unwound", "aborted"} =>
            Alone(op[t], error_handler, abort_handler, saw[t]).k = "panic"

C10_Witness ==
    \E t, u \in Threads :
        /\ pc[t] = "err_body"
        /\ pc[u] = "panic_body"
        /\ err_arg[t].val = "e2"
        /\ abort_arg[u].val = "p1"
        /\ error_handler["e2"] # abort_handler["p1"]

====
